---- MODULE Spec2Model ----
(***************************************************************************)
(* Student-perfomance-Analyser: the concept-level analysis pipeline of     *)
(* GeminiAnalyzer (src/gemini_analyzer.py).                                *)
(*                                                                         *)
(* The inference service is the environment: every generate_content call   *)
(* is answered by a nondeterministically chosen response (a transport      *)
(* failure, a text json.loads rejects, or a decoded JSON value).           *)
(* Free-text fields of the responses (summaries, rationales, mistake       *)
(* descriptions) carry no control flow and are not represented: a details  *)
(* object is represented by its set of keys.                               *)
(*                                                                         *)
(* A Python str is a sequence of one-character strings; the character      *)
(* "sup2" stands for U+00B2 (superscript two), for which str.isdigit() is  *)
(* True while int() raises ValueError.                                     *)
(***************************************************************************)
EXTENDS Integers, Sequences, FiniteSets, TLC

\* ---------------------------------------------------------------- bounds
\* Longest concept list the extraction stage returns in the model.
MaxConcepts == 2
\* Longest question-number / mistakes list the model returns.
MaxLen == 2
\* Longest identifier string given to the coercion on its own (SpecCoerce).
MaxStr == 2

\* ---------------------------------------------------------------- values
SeqUpTo(S, n) == UNION {[1..k -> S] : k \in 0..n}

DecimalDigits == <<"0", "1", "2", "3", "4", "5", "6", "7", "8", "9">>

IsDecimal(c) == \E d \in 1..Len(DecimalDigits) : DecimalDigits[d] = c

DigitValue(c) == (CHOOSE d \in 1..Len(DecimalDigits) : DecimalDigits[d] = c) - 1

\* str.isspace() of one character
IsSpace(c) == c \in {" ", "nl"}

\* A JSON identifier as json.loads delivers it: a Python int, a Python str,
\* or a value of another type (float, None, list, ...).
IntId(n) == [t |-> "int", n |-> n, s |-> <<>>]

StrId(s) == [t |-> "str", n |-> 0, s |-> s]

OtherId == [t |-> "other", n |-> 0, s |-> <<>>]

\* str.strip(): drop leading and trailing whitespace
RECURSIVE lstrip(_)
lstrip(s) == IF s # <<>> /\ IsSpace(Head(s)) THEN lstrip(Tail(s)) ELSE s

RECURSIVE rstrip(_)
rstrip(s) ==
    IF s # <<>> /\ IsSpace(s[Len(s)]) THEN rstrip(SubSeq(s, 1, Len(s) - 1)) ELSE s

strip(s) == rstrip(lstrip(s))

\* str.isdigit(): non-empty and every character has the Unicode digit
\* property, which the decimal digits and the superscript digits have.
isdigit(s) == s # <<>> /\ \A i \in 1..Len(s) : IsDecimal(s[i]) \/ s[i] = "sup2"

\* int(s) accepts (here) exactly the non-empty strings of decimal digits
int_accepts(s) == s # <<>> /\ \A i \in 1..Len(s) : IsDecimal(s[i])

RECURSIVE int_value(_)
int_value(s) ==
    IF s = <<>> THEN 0
    ELSE 10 * int_value(SubSeq(s, 1, Len(s) - 1)) + DigitValue(s[Len(s)])

\* str(n) of a non-negative int
RECURSIVE str_of_int(_)
str_of_int(n) ==
    IF n < 10 THEN <<DecimalDigits[n + 1]>>
    ELSE str_of_int(n \div 10) \o <<DecimalDigits[(n % 10) + 1]>>

\* str(x) of an identifier (the text of a value of another type is not
\* represented and never equals a details key of the model)
str(x) ==
    IF x.t = "int" THEN str_of_int(x.n)
    ELSE IF x.t = "str" THEN x.s
    ELSE <<"other">>


\* ------------------------------------------------------------ coercion
\* The branch of the coercion loops for one element
\* (isinstance int / digit string / anything else).  ok = FALSE: int() raised.
coerce_number(number) ==
    IF number.t = "int" THEN [ok |-> TRUE, v |-> number]
    ELSE IF number.t = "str" /\ isdigit(strip(number.s))
         THEN IF int_accepts(strip(number.s))
              THEN [ok |-> TRUE, v |-> IntId(int_value(strip(number.s)))]
              ELSE [ok |-> FALSE, v |-> number]
    ELSE [ok |-> TRUE, v |-> number]

\* for number in question_numbers_raw: question_numbers.append(...)
question_numbers_of(question_numbers_raw) ==
    IF \A i \in 1..Len(question_numbers_raw) : coerce_number(question_numbers_raw[i]).ok
    THEN [ok |-> TRUE,
          val |-> [i \in 1..Len(question_numbers_raw) |->
                      coerce_number(question_numbers_raw[i]).v]]
    ELSE [ok |-> FALSE, val |-> <<>>]

\* for number in mistakes_raw: mistake_questions.append(...)
mistake_questions_of(mistakes_raw) ==
    IF \A i \in 1..Len(mistakes_raw) : coerce_number(mistakes_raw[i]).ok
    THEN [ok |-> TRUE,
          val |-> [i \in 1..Len(mistakes_raw) |-> coerce_number(mistakes_raw[i]).v]]
    ELSE [ok |-> FALSE, val |-> <<>>]

\* ------------------------------------------------------------ errors
NoError == [type |-> "none", stage |-> "none", cause |-> "none"]

\* raise ValueError(f"Error <stage>: {str(e)}") of the three stage methods
StageError(stage, cause) == [type |-> "ValueError", stage |-> stage, cause |-> cause]

\* An exception raised outside the try blocks of the stage methods: nothing wraps it
DriverError(type, cause) == [type |-> type, stage |-> "none", cause |-> cause]

\* ------------------------------------------------- the inference service
Concepts == {"A", "B"}

\* Identifiers the service puts into the lists of the pipeline runs: " 1", which
\* the coercion turns into the int 1, and the superscript two, on which it raises.
\* (SpecCoerce below gives the coercion ints, other strings and other types.)
MainIds == {StrId(<<" ", "1">>), StrId(<<"sup2">>)}

QLists == SeqUpTo(MainIds, MaxLen)

\* keys of a "details" object
DetailKeys == {<<"1">>}

\* A response: generate_content/response.text raised ("transport"),
\* json.loads raised ("nonjson"), or a decoded value ("json") of some shape.
Failed(kind) ==
    [kind |-> kind, shape |-> "none", items |-> <<>>, concept_map |-> <<>>,
     has_question_reasoning |-> FALSE, question_reasoning |-> <<>>,
     has_evaluation_notes |-> FALSE, evaluation_notes |-> <<>>,
     has_mistakes |-> FALSE, mistakes |-> <<>>, has_details |-> FALSE, details |-> {},
     has_reasoning |-> FALSE, reasoning |-> <<>>]

NoResponse == Failed("none")

\* a JSON value json.loads accepts and the stage then handles as `shape` says
Decoded(shape) == [Failed("json") EXCEPT !.shape = shape]

ExtractResponses ==
    {Failed("transport"), Failed("nonjson"), Decoded("scalar")}
    \cup {[Decoded("array") EXCEPT !.items = l] : l \in SeqUpTo(Concepts, MaxConcepts)}

\* a key of a response object: absent, or present with a value
Optional(values, none) ==
    {[has |-> FALSE, v |-> none]} \cup {[has |-> TRUE, v |-> x] : x \in values}

\* One alignment of a question_reasoning entry; confidence "absent": no such key
Alignment(concept, confidence) == [concept |-> concept, confidence |-> confidence]

\* One entry of "question_reasoning".  alignments_is_list: whether the value of
\* "concept_alignments" is a list; considered_but_rejected: the names it lists.
ReasoningEntry(question, alignments) ==
    [question |-> question, summary |-> "s",
     alignments_is_list |-> TRUE, concept_alignments |-> alignments,
     has_rejected |-> FALSE, considered_but_rejected |-> <<>>]

\* question 1 tests A (twice, low and high) and B; question " 1" tests B and
\* lists a rejected concept and an empty name
ReasoningAB ==
    <<ReasoningEntry(IntId(1), <<Alignment("A", "low"), Alignment("B", "high"),
                                 Alignment("A", "high")>>),
      [ReasoningEntry(StrId(<<" ", "1">>), <<Alignment("B", "absent")>>)
          EXCEPT !.has_rejected = TRUE, !.considered_but_rejected = <<"A", "">>]>>

\* an entry for A whose question is the superscript two, and one whose
\* "concept_alignments" is not a list
ReasoningSup2 ==
    <<[ReasoningEntry(IntId(1), <<>>) EXCEPT !.alignments_is_list = FALSE],
      ReasoningEntry(StrId(<<"sup2">>), <<Alignment("A", "medium")>>)>>

\* values of "question_reasoning" / "evaluation_notes" of a mapping response
ReasoningLists == {<<>>, ReasoningAB, ReasoningSup2}

NoteLists == {<<>>, <<"note">>}

\* values of "reasoning" of a performance response
StepLists == {<<>>, <<"step">>}

\* the mapping responses without the two optional keys
MapResponses ==
    {Failed("transport"), Failed("nonjson"), Decoded("not_object"),
     Decoded("no_concept_map"), Decoded("concept_map_not_dict")}
    \cup {[Decoded("object") EXCEPT !.concept_map = m] :
             m \in UNION {[K -> QLists] : K \in SUBSET Concepts}}

WithMapKeys(resp, qr, notes) ==
    [resp EXCEPT !.has_question_reasoning = qr.has, !.question_reasoning = qr.v,
                 !.has_evaluation_notes = notes.has, !.evaluation_notes = notes.v]

\* every mapping response: each optional key absent or present
AllMapResponses ==
    MapResponses
    \cup {WithMapKeys(resp, qr, notes) :
             resp \in {r \in MapResponses : r.shape = "object"},
             qr \in Optional(ReasoningLists, <<>>), notes \in Optional(NoteLists, <<>>)}

\* the mapping responses of a service that always sends both optional keys,
\* with entries
ReasonedMapResponses ==
    {resp \in AllMapResponses :
        resp.shape = "object" =>
            /\ resp.has_question_reasoning /\ resp.question_reasoning # <<>>
            /\ resp.has_evaluation_notes /\ resp.evaluation_notes # <<>>}

\* the performance responses without "reasoning" and "evaluation_notes": those
\* of the pipeline runs
PerfResponses ==
    {Failed("transport"), Failed("nonjson"), Decoded("not_object")}
    \cup {[Decoded("object") EXCEPT !.has_mistakes = m.has, !.mistakes = m.v,
                                    !.has_details = d.has, !.details = d.v] :
             m \in Optional(QLists, <<>>), d \in Optional(SUBSET DetailKeys, {})}

\* every performance response: each of the four keys absent or present
AllPerfResponses ==
    PerfResponses
    \cup {[resp EXCEPT !.has_reasoning = r.has, !.reasoning = r.v,
                       !.has_evaluation_notes = n.has, !.evaluation_notes = n.v] :
             resp \in {p \in PerfResponses : p.shape = "object"},
             r \in Optional(StepLists, <<>>), n \in Optional(NoteLists, <<>>)}

\* ------------------------------------------------------- stage methods
\* a failure is swallowed and an empty concept list returned
extract_concepts_soft(resp) ==
    IF resp.kind # "json"
    THEN [ok |-> TRUE, error |-> NoError, iterable |-> TRUE, concepts |-> <<>>]
    ELSE [ok |-> TRUE, error |-> NoError,
          iterable |-> resp.shape = "array", concepts |-> resp.items]

\* GeminiAnalyzer.extract_concepts: whatever json.loads decoded is returned
extract_concepts(resp) ==
    IF resp.kind # "json"
    THEN [ok |-> FALSE, error |-> StageError("extract", resp.kind),
          iterable |-> FALSE, concepts |-> <<>>]
    ELSE [ok |-> TRUE, error |-> NoError,
          iterable |-> resp.shape = "array", concepts |-> resp.items]

\* no mapping: what a raising analyze_question_paper leaves its caller with
NoMapping == [concept_map |-> <<>>, question_reasoning |-> <<>>, evaluation_notes |-> <<>>]

\* concept_map[concept] = [] in place of setdefault: supplied lists are lost
with_all_concepts_overwrite(concept_map, concepts) ==
    [c \in DOMAIN concept_map \cup {concepts[i] : i \in 1..Len(concepts)} |->
        IF \E i \in 1..Len(concepts) : concepts[i] = c THEN <<>> ELSE concept_map[c]]

\* dict.setdefault(concept, []) for every concept of the list
with_all_concepts(concept_map, concepts) ==
    [c \in DOMAIN concept_map \cup {concepts[i] : i \in 1..Len(concepts)} |->
        IF c \in DOMAIN concept_map THEN concept_map[c] ELSE <<>>]

\* GeminiAnalyzer.analyze_question_paper, from the call to the return or raise
\* a missing "concept_map" is filled with {} like the two optional keys
analyze_question_paper_lenient(resp, concepts) ==
    IF resp.kind # "json"
    THEN [ok |-> FALSE, error |-> StageError("map", resp.kind), value |-> NoMapping]
    ELSE IF resp.shape = "no_concept_map"
    THEN [ok |-> TRUE, error |-> NoError,
          value |-> [NoMapping EXCEPT !.concept_map = with_all_concepts(<<>>, concepts)]]
    ELSE IF resp.shape # "object"
    THEN [ok |-> FALSE, error |-> StageError("map", resp.shape), value |-> NoMapping]
    ELSE [ok |-> TRUE, error |-> NoError,
          value |-> [concept_map |-> with_all_concepts(resp.concept_map, concepts),
                     question_reasoning |->
                         IF resp.has_question_reasoning THEN resp.question_reasoning
                         ELSE <<>>,
                     evaluation_notes |->
                         IF resp.has_evaluation_notes THEN resp.evaluation_notes
                         ELSE <<>>]]

\* the optional keys are required: a response without one of them is refused
analyze_question_paper_strict(resp, concepts) ==
    IF resp.kind # "json"
    THEN [ok |-> FALSE, error |-> StageError("map", resp.kind), value |-> NoMapping]
    ELSE IF resp.shape # "object"
    THEN [ok |-> FALSE, error |-> StageError("map", resp.shape), value |-> NoMapping]
    ELSE IF ~resp.has_question_reasoning \/ ~resp.has_evaluation_notes
    THEN [ok |-> FALSE, error |-> StageError("map", "missing_key"), value |-> NoMapping]
    ELSE [ok |-> TRUE, error |-> NoError,
          value |-> [concept_map |-> with_all_concepts(resp.concept_map, concepts),
                     question_reasoning |-> resp.question_reasoning,
                     evaluation_notes |-> resp.evaluation_notes]]

\* GeminiAnalyzer.analyze_question_paper, from the call to the return or raise.
\* Shapes other than "object" are the decoded values the checks on "concept_map"
\* refuse (or on which they raise).
analyze_question_paper(resp, concepts) ==
    IF resp.kind # "json"
    THEN [ok |-> FALSE, error |-> StageError("map", resp.kind), value |-> NoMapping]
    ELSE IF resp.shape # "object"
    THEN [ok |-> FALSE, error |-> StageError("map", resp.shape), value |-> NoMapping]
    ELSE [ok |-> TRUE, error |-> NoError,
          value |-> [concept_map |-> with_all_concepts(resp.concept_map, concepts),
                     question_reasoning |->
                         IF resp.has_question_reasoning THEN resp.question_reasoning
                         ELSE <<>>,
                     evaluation_notes |->
                         IF resp.has_evaluation_notes THEN resp.evaluation_notes
                         ELSE <<>>]]

\* the result analyze_student_performance returns without a call
EmptyPerformance ==
    [mistakes |-> <<>>, details |-> {}, reasoning |-> <<>>, evaluation_notes |-> <<>>]

\* the four keys are overwritten with their defaults, present or not
setdefaults_overwrite(resp) == EmptyPerformance

\* performance.setdefault(key, default) for the four keys of the schema
setdefaults(resp) ==
    [mistakes |-> IF resp.has_mistakes THEN resp.mistakes ELSE <<>>,
     details  |-> IF resp.has_details THEN resp.details ELSE {},
     reasoning |-> IF resp.has_reasoning THEN resp.reasoning ELSE <<>>,
     evaluation_notes |->
         IF resp.has_evaluation_notes THEN resp.evaluation_notes ELSE <<>>]

\* a failure is swallowed and the empty result returned, as a soft failure would
analyze_student_performance_soft(concept, question_numbers, resp) ==
    IF question_numbers = <<>>
    THEN [ok |-> TRUE, issued |-> FALSE, error |-> NoError, value |-> EmptyPerformance]
    ELSE IF resp.kind # "json" \/ resp.shape # "object"
    THEN [ok |-> TRUE, issued |-> TRUE, error |-> NoError, value |-> EmptyPerformance]
    ELSE [ok |-> TRUE, issued |-> TRUE, error |-> NoError,
          value |-> setdefaults(resp)]

\* without the early return for an empty question list
analyze_student_performance_no_guard(concept, question_numbers, resp) ==
    IF resp.kind # "json"
    THEN [ok |-> FALSE, issued |-> TRUE, error |-> StageError("eval", resp.kind),
          value |-> EmptyPerformance]
    ELSE IF resp.shape # "object"
    THEN [ok |-> FALSE, issued |-> TRUE, error |-> StageError("eval", resp.shape),
          value |-> EmptyPerformance]
    ELSE [ok |-> TRUE, issued |-> TRUE, error |-> NoError,
          value |-> setdefaults(resp)]

\* GeminiAnalyzer.analyze_student_performance; issued: generate_content was called
analyze_student_performance(concept, question_numbers, resp) ==
    IF question_numbers = <<>>
    THEN [ok |-> TRUE, issued |-> FALSE, error |-> NoError, value |-> EmptyPerformance]
    ELSE IF resp.kind # "json"
    THEN [ok |-> FALSE, issued |-> TRUE, error |-> StageError("eval", resp.kind),
          value |-> EmptyPerformance]
    ELSE IF resp.shape # "object"
    THEN [ok |-> FALSE, issued |-> TRUE, error |-> StageError("eval", resp.shape),
          value |-> EmptyPerformance]
    ELSE [ok |-> TRUE, issued |-> TRUE, error |-> NoError,
          value |-> setdefaults(resp)]


\* ------------------------------------------------- parsing a response
\* A response text is a sequence of tokens: the fence of three backticks, a
\* language tag, white space (" ", "nl" for a line break) and pieces of JSON.
Fence == "fence"

\* the JSON text ["A"], one token
PayloadA == <<"[A]">>

\* the JSON text of a list with one string that holds three backticks
PayloadTicks == <<"[a", Fence, "b]">>

\* text that is no JSON: words before or after a JSON value
StrayBefore == <<"x", " ">> \o PayloadA

StrayAfter == PayloadA \o <<" ", "x">>

\* the position of the first occurrence of sep in s, 0 if there is none
IndexOf(s, sep) ==
    LET at == {i \in 1..(Len(s) - Len(sep) + 1) : SubSeq(s, i, i + Len(sep) - 1) = sep}
    IN IF at = {} THEN 0 ELSE CHOOSE i \in at : \A j \in at : i <= j

\* str.startswith(prefix)
startswith(s, prefix) ==
    Len(s) >= Len(prefix) /\ SubSeq(s, 1, Len(prefix)) = prefix

\* str.split(sep): the pieces between the occurrences of sep, left to right
RECURSIVE split(_, _)
split(s, sep) ==
    LET i == IndexOf(s, sep)
    IN IF i = 0 THEN <<s>>
       ELSE <<SubSeq(s, 1, i - 1)>> \o split(SubSeq(s, i + Len(sep), Len(s)), sep)

\* response.text.strip() and the removal of markdown code blocks; [1] and [0]
\* of Python are the second and the first piece
strip_code_block(text) ==
    LET response_text == strip(text)
    IN IF startswith(response_text, <<Fence, "json">>)
       THEN strip(split(split(response_text, <<Fence, "json">>)[2], <<Fence>>)[1])
       ELSE IF startswith(response_text, <<Fence>>)
       THEN strip(split(split(response_text, <<Fence>>)[2], <<Fence>>)[1])
       ELSE response_text

\* json.loads: the decoded value, or the message of the JSONDecodeError, which
\* tells what was expected and where, and quotes nothing of the document
json_loads(s) ==
    LET doc == strip(s)
    IN IF doc = PayloadA THEN [ok |-> TRUE, value |-> "list A", msg |-> "none"]
       ELSE IF doc = PayloadTicks
       THEN [ok |-> TRUE, value |-> "list a-fence-b", msg |-> "none"]
       ELSE IF startswith(doc, PayloadA) \/ startswith(doc, PayloadTicks)
       THEN [ok |-> FALSE, value |-> "none", msg |-> "Extra data: line, column (char)"]
       ELSE IF startswith(doc, <<PayloadTicks[1]>>)
       THEN [ok |-> FALSE, value |-> "none",
             msg |-> "Unterminated string starting at: line, column (char)"]
       ELSE [ok |-> FALSE, value |-> "none",
             msg |-> "Expecting value: line, column (char)"]

\* the f-string prefix of the ValueError of each stage method
ErrorPrefix(stage) ==
    CASE stage = "extract" -> "Error extracting concepts: "
      [] stage = "map"     -> "Error analyzing question paper: "
      [] stage = "eval"    -> "Error analyzing student performance for A: "

\* The parsing section of a stage method: the decoded value is returned, or
\* ValueError(f"Error ...: {str(e)}") raised; message: its text, in pieces
parse_response(stage, text) ==
    LET decoded == json_loads(strip_code_block(text))
    IN IF decoded.ok
       THEN [ok |-> TRUE, value |-> decoded.value, error |-> NoError, message |-> <<>>]
       ELSE [ok |-> FALSE, value |-> "none", error |-> StageError(stage, "nonjson"),
             message |-> <<ErrorPrefix(stage), decoded.msg>>]

\* ------------------------------------------------------------ state
VARIABLES
    pc,                \* position of the session: "idle", then inside
                       \* analyze_all_concepts "extract", "map", "loop", "eval",
                       \* "done", "failed"; "direct" after a direct stage call;
                       \* "coerce"/"coerced" and "parse"/"parsed" around the
                       \* coercion loops and the parsing section on their own
    progress_callback, \* whether analyze_all_concepts was given a callback
    concepts,          \* local: the extracted concept list
    concept_questions, \* local: concept_analysis["concept_map"]
    idx,               \* local: 1-based position of the loop in concepts
    question_numbers,  \* local: the coerced question numbers of concepts[idx]
    results,           \* local: the records assembled so far
    returned,          \* what analyze_all_concepts returned to its caller
    error,             \* the exception that left the called method
    mapping_response,  \* the mapping response as the service sent it
    trace,             \* the calls, returns, callbacks and sleeps, in order
    direct,            \* outcome of a direct analyze_student_performance call
    numbers_raw,       \* a raw identifier list given to the two coercion loops
    coerced,           \* what the two coercion loops made of numbers_raw
    question_reasoning,      \* local: concept_analysis["question_reasoning"]
    last_question_reasoning, \* self.last_question_reasoning
    last_mapping_notes,      \* self.last_mapping_notes
    mapped,            \* outcome of a direct analyze_question_paper call
    service,           \* the service of the pipeline runs: "plain" sends the
                       \* required keys only, "reasoned" the optional ones too
    sent,              \* what the service put into a response text
    response_text,     \* response.text of a stage that parses it
    parsed,            \* what the stage made of response_text
    target,            \* the concept given to _extract_concept_reasoning on its own
    filtered_reasoning, \* what _extract_concept_reasoning returned for it
    calls_made,        \* number of methods called on one analyzer, one after another
    last_call,         \* the latest of them: its name, outcome and returned value
    analyze_runs,      \* app.py: number of clicks on the Analyze button so far
    session_state,     \* app.py: the four fields of st.session_state
    run_locals,        \* app.py: results, excel_data, pdf_data of the running handler
    at_click           \* history: session_state when the running handler began

vars == <<pc, progress_callback, concepts, concept_questions, idx, question_numbers,
          results, returned, error, mapping_response, trace, direct, numbers_raw,
          coerced, question_reasoning, last_question_reasoning, last_mapping_notes,
          mapped, service, sent, response_text, parsed, target, filtered_reasoning,
          calls_made, last_call, analyze_runs, session_state, run_locals, at_click>>

project_vars == <<target, filtered_reasoning>>

session_vars == <<calls_made, last_call>>

app_vars == <<analyze_runs, session_state, run_locals, at_click>>

\* the locals and outcomes of analyze_all_concepts and of the direct stage calls
pipeline_vars == <<progress_callback, concepts, concept_questions, idx, question_numbers,
                   results, returned, mapping_response, trace, direct, numbers_raw,
                   coerced, question_reasoning, mapped, service>>

parse_vars == <<sent, response_text, parsed>>

NotReturned == [set |-> FALSE, value |-> <<>>]

NoDirect ==
    [called |-> FALSE, question_numbers |-> <<>>, response |-> NoResponse,
     ok |-> FALSE, issued |-> FALSE, value |-> EmptyPerformance]

NotMapped ==
    [called |-> FALSE, concepts |-> <<>>, response |-> NoResponse, ok |-> FALSE,
     value |-> NoMapping]

NothingSent ==
    [stage |-> "none", payload |-> <<>>, fence |-> "none", lead |-> <<>>, trail |-> <<>>]

NotParsed ==
    [done |-> FALSE, ok |-> FALSE, value |-> "none", error |-> NoError, message |-> <<>>]

NotFiltered == [done |-> FALSE, ok |-> FALSE, val |-> <<>>]

NotCoerced ==
    [done |-> FALSE, questions |-> [ok |-> FALSE, val |-> <<>>],
     mistakes |-> [ok |-> FALSE, val |-> <<>>]]

\* One entry of the trace.  A "call" entry is a generate_content call and carries
\* what the service answered; "return"/"fail" is how the stage method ended.
\* n: the number a progress message shows besides idx, or the length of a sleep.
Event(ev, stage, i) ==
    [ev |-> ev, stage |-> stage, idx |-> i, answer |-> "none", n |-> 0]

\* what the service answered: the failure, or the shape of the decoded value
AnswerOf(resp) == IF resp.kind = "json" THEN resp.shape ELSE resp.kind

Call(stage, i, resp) ==
    [ev |-> "call", stage |-> stage, idx |-> i, answer |-> AnswerOf(resp), n |-> 0]

\* time.sleep(0.5), in tenths of a second
PacingDelay == 5

\* a sleep that grows with the position, as a backoff would
Sleep_backoff(i) == [Event("sleep", "eval", i) EXCEPT !.n = PacingDelay * i]

\* time.sleep(0.5) at the end of the loop pass for concepts[i]
Sleep(i) == [Event("sleep", "eval", i) EXCEPT !.n = PacingDelay]

\* the per-concept message numbered from 0: f"{idx}/{total_concepts}"
progress_zero_based(cb, stage, i, n) ==
    IF cb THEN <<[Event("progress", stage, IF stage = "eval" THEN i - 1 ELSE i)
                     EXCEPT !.n = n]>>
    ELSE <<>>

\* if progress_callback: progress_callback(...).  The message of stage "map"
\* shows n = len(concepts), that of "eval" shows i = idx+1 and n = total_concepts.
progress(cb, stage, i, n) ==
    IF cb THEN <<[Event("progress", stage, i) EXCEPT !.n = n]>> ELSE <<>>

\* the locals and outcomes before any method has run
Fresh ==
    /\ progress_callback = FALSE
    /\ concepts = <<>>
    /\ concept_questions = <<>>
    /\ idx = 0
    /\ question_numbers = <<>>
    /\ results = <<>>
    /\ returned = NotReturned
    /\ error = NoError
    /\ mapping_response = NoResponse
    /\ trace = <<>>
    /\ direct = NoDirect
    /\ coerced = NotCoerced
    /\ question_reasoning = <<>>
    /\ last_question_reasoning = <<>>
    /\ last_mapping_notes = <<>>
    /\ mapped = NotMapped

\* no response text is at hand
NoText ==
    /\ sent = NothingSent
    /\ response_text = <<>>
    /\ parsed = NotParsed

\* _extract_concept_reasoning has not been called on its own
NotProjected ==
    /\ target = "none"
    /\ filtered_reasoning = NotFiltered

\* no method has been called in a session of calls on one analyzer
NoCall == [method |-> "none", ok |-> FALSE, question_reasoning |-> <<>>,
           evaluation_notes |-> <<>>]

NoSession ==
    /\ calls_made = 0
    /\ last_call = NoCall

\* None, as the value of a session field or of a local of the Analyze handler
NoData == [kind |-> "none", run |-> 0, records |-> 0]

\* app.py initialize_session_state(): each field is set only if it is absent
initialize_session_state ==
    [analysis_complete |-> FALSE, results |-> NoData, excel_data |-> NoData,
     pdf_data |-> NoData]

NoLocals == [results |-> NoData, excel_data |-> NoData, pdf_data |-> NoData]

\* the page has been opened and Analyze has not been clicked
NoApp ==
    /\ analyze_runs = 0
    /\ session_state = initialize_session_state
    /\ run_locals = NoLocals
    /\ at_click = initialize_session_state

\* state after GeminiAnalyzer.__init__, before any method is called
Init ==
    /\ pc = "idle"
    /\ numbers_raw = <<>>
    /\ service = "plain"
    /\ NoText
    /\ NotProjected
    /\ NoSession
    /\ NoApp
    /\ Fresh

\* a failed evaluation is tried again instead of leaving the method
Abort_retry(e, tr) ==
    /\ pc' = IF pc = "eval" THEN "loop" ELSE "failed"
    /\ error' = IF pc = "eval" THEN error ELSE e
    /\ trace' = IF pc = "eval" THEN trace ELSE tr \o <<Event("raise", e.stage, 0)>>

\* an exception leaves analyze_all_concepts: nothing is returned
Abort(e, tr) ==
    /\ pc' = "failed"
    /\ error' = e
    /\ trace' = tr \o <<Event("raise", e.stage, 0)>>

\* The for loop goes on with concept number i, or is exhausted: then the final
\* progress message and `return results`.
Proceed_reject_empty(i, res, tr) ==
    /\ results' = res
    /\ idx' = i
    /\ IF Len(concepts) = 0
       THEN /\ trace' = tr \o <<Event("raise", "map", 0)>>
            /\ pc' = "failed"
            /\ UNCHANGED returned
       ELSE IF i > Len(concepts)
       THEN /\ trace' = tr \o progress(progress_callback, "done", 0, 0)
            /\ returned' = [set |-> TRUE, value |-> res]
            /\ pc' = "done"
       ELSE /\ trace' = tr
            /\ pc' = "loop"
            /\ UNCHANGED returned

Proceed(i, res, tr) ==
    /\ results' = res
    /\ idx' = i
    /\ IF i > Len(concepts)
       THEN /\ trace' = tr \o progress(progress_callback, "done", 0, 0)
            /\ returned' = [set |-> TRUE, value |-> res]
            /\ pc' = "done"
       ELSE /\ trace' = tr
            /\ pc' = "loop"
            /\ UNCHANGED returned

\* analyze_all_concepts is entered: results = [] and the first progress message
Start ==
    /\ pc = "idle"
    /\ UNCHANGED parse_vars
    /\ UNCHANGED <<session_vars, app_vars>>
    /\ UNCHANGED project_vars
    /\ UNCHANGED <<question_reasoning, last_question_reasoning, last_mapping_notes,
                   mapped, service>>
    /\ \E cb \in BOOLEAN :
          /\ progress_callback' = cb
          /\ trace' = trace \o progress(cb, "extract", 0, 0)
    /\ results' = <<>>
    /\ pc' = "extract"
    /\ UNCHANGED <<concepts, concept_questions, idx, question_numbers, returned, error,
                   mapping_response, direct, numbers_raw, coerced>>

\* Step 1: concepts = self.extract_concepts(...), then the second progress message
ExtractConcepts ==
    /\ pc = "extract"
    /\ UNCHANGED parse_vars
    /\ UNCHANGED <<session_vars, app_vars>>
    /\ UNCHANGED project_vars
    /\ UNCHANGED <<question_reasoning, last_question_reasoning, last_mapping_notes,
                   mapped, service>>
    /\ \E resp \in ExtractResponses :
          LET out == extract_concepts(resp)
              tr  == trace \o <<Call("extract", 0, resp),
                                Event(IF out.ok THEN "return" ELSE "fail", "extract", 0)>>
          IN IF ~out.ok
             THEN Abort(out.error, tr) /\ UNCHANGED concepts
             ELSE IF ~out.iterable
             THEN \* With a callback, len(concepts) raises in the driver; without,
                  \* analyze_question_paper is entered and its enumerate(concepts),
                  \* which stands before the try block, raises.
                  /\ IF progress_callback
                     THEN Abort(DriverError("TypeError", "len"), tr)
                     ELSE Abort(DriverError("TypeError", "enumerate"),
                                tr \o <<Event("fail", "map", 0)>>)
                  /\ UNCHANGED concepts
             ELSE /\ concepts' = out.concepts
                  /\ trace' = tr \o progress(progress_callback, "map", 0, Len(out.concepts))
                  /\ pc' = "map"
                  /\ UNCHANGED error
    /\ UNCHANGED <<progress_callback, concept_questions, idx, question_numbers, results,
                   returned, mapping_response, direct, numbers_raw, coerced>>

\* Step 2: concept_analysis = self.analyze_question_paper(...), up to the loop head
AnalyzeQuestionPaper ==
    /\ pc = "map"
    /\ UNCHANGED parse_vars
    /\ UNCHANGED <<session_vars, app_vars>>
    /\ UNCHANGED project_vars
    /\ \E resp \in IF service = "plain" THEN MapResponses ELSE ReasonedMapResponses :
          LET out == analyze_question_paper(resp, concepts)
              tr  == trace \o <<Call("map", 0, resp),
                                Event(IF out.ok THEN "return" ELSE "fail", "map", 0)>>
          IN /\ mapping_response' = resp
             /\ IF ~out.ok
                THEN /\ Abort(out.error, tr)
                     /\ UNCHANGED <<concept_questions, idx, results, returned,
                                    question_reasoning, last_question_reasoning,
                                    last_mapping_notes>>
                ELSE /\ last_question_reasoning' = out.value.question_reasoning
                     /\ last_mapping_notes' = out.value.evaluation_notes
                     /\ concept_questions' = out.value.concept_map
                     /\ question_reasoning' = out.value.question_reasoning
                     /\ Proceed(1, results, tr)
                     /\ UNCHANGED error
    /\ UNCHANGED <<progress_callback, concepts, question_numbers, direct, numbers_raw,
                   coerced, mapped, service>>

\* concept_questions.get(concept, [])
get_questions(concept_map, concept) ==
    IF concept \in DOMAIN concept_map THEN concept_map[concept] ELSE <<>>

\* [a for a in concept_alignments if a.get("concept") == concept]
matching_alignments(entry, concept) ==
    SelectSeq(entry.concept_alignments, LAMBDA a : a.concept = concept)

\* a.get("confidence", "medium") of every alignment, as a set
confidence_levels(alignments) ==
    {IF alignments[i].confidence = "absent" THEN "medium" ELSE alignments[i].confidence :
        i \in 1..Len(alignments)}

overall_confidence(alignments) ==
    IF "high" \in confidence_levels(alignments) THEN "high"
    ELSE IF "medium" \in confidence_levels(alignments) THEN "medium"
    ELSE "low"

\* the entry keeps every alignment of the question, whatever its concept
filtered_entry_unfiltered(entry, concept) ==
    [question |-> coerce_number(entry.question).v,
     summary |-> entry.summary,
     concept_alignments |-> entry.concept_alignments,
     confidence |-> overall_confidence(matching_alignments(entry, concept)),
     has_rejected |-> entry.has_rejected,
     considered_but_rejected |->
         SelectSeq(entry.considered_but_rejected, LAMBDA r : r # "")]

\* the confidence is taken over every alignment of the question
filtered_entry_any_concept(entry, concept) ==
    [question |-> coerce_number(entry.question).v,
     summary |-> entry.summary,
     concept_alignments |-> matching_alignments(entry, concept),
     confidence |-> overall_confidence(entry.concept_alignments),
     has_rejected |-> entry.has_rejected,
     considered_but_rejected |->
         SelectSeq(entry.considered_but_rejected, LAMBDA r : r # "")]

\* filtered_entry of _extract_concept_reasoning, for an entry that matches
filtered_entry(entry, concept) ==
    [question |-> coerce_number(entry.question).v,
     summary |-> entry.summary,
     concept_alignments |-> matching_alignments(entry, concept),
     confidence |-> overall_confidence(matching_alignments(entry, concept)),
     has_rejected |-> entry.has_rejected,
     considered_but_rejected |->
         SelectSeq(entry.considered_but_rejected, LAMBDA r : r # "")]

\* the kept entries are returned sorted by question number: those of
\* question 1 first
RECURSIVE extract_concept_reasoning_sorted(_, _)
extract_concept_reasoning_sorted(reasoning, concept) ==
    IF reasoning = <<>> THEN [ok |-> TRUE, val |-> <<>>]
    ELSE LET entry == Head(reasoning)
             rest  == extract_concept_reasoning_sorted(Tail(reasoning), concept)
             first == filtered_entry(entry, concept)
         IN IF ~entry.alignments_is_list \/ matching_alignments(entry, concept) = <<>>
            THEN rest
            ELSE IF ~coerce_number(entry.question).ok \/ ~rest.ok
            THEN [ok |-> FALSE, val |-> <<>>]
            ELSE [ok |-> TRUE,
                  val |-> SelectSeq(<<first>> \o rest.val, LAMBDA e : e.question = IntId(1))
                          \o SelectSeq(<<first>> \o rest.val,
                                       LAMBDA e : e.question # IntId(1))]

\* GeminiAnalyzer._extract_concept_reasoning; ok = FALSE: int() raised on the
\* question of a matching entry
RECURSIVE extract_concept_reasoning(_, _)
extract_concept_reasoning(reasoning, concept) ==
    IF reasoning = <<>> THEN [ok |-> TRUE, val |-> <<>>]
    ELSE LET entry == Head(reasoning)
             rest  == extract_concept_reasoning(Tail(reasoning), concept)
         IN IF ~entry.alignments_is_list \/ matching_alignments(entry, concept) = <<>>
            THEN rest
            ELSE IF ~coerce_number(entry.question).ok \/ ~rest.ok
            THEN [ok |-> FALSE, val |-> <<>>]
            ELSE [ok |-> TRUE, val |-> <<filtered_entry(entry, concept)>> \o rest.val]

\* the record of a concept that no question tests
UntestedRecord(concept, concept_reasoning) ==
    [concept |-> concept, tested_count |-> 0, mistakes_count |-> 0,
     mistake_questions |-> <<>>, details |-> {},
     concept_reasoning |-> concept_reasoning,
     performance_reasoning |-> <<>>, performance_notes |-> <<>>]

\* mistakes_count counts the distinct mistakes instead of len(mistake_questions)
TestedRecord_distinct(concept, qns, mistake_questions, performance, concept_reasoning) ==
    [concept |-> concept, tested_count |-> Len(qns),
     mistakes_count |->
         Cardinality({mistake_questions[i] : i \in 1..Len(mistake_questions)}),
     mistake_questions |-> mistake_questions, details |-> performance.details,
     concept_reasoning |-> concept_reasoning,
     performance_reasoning |-> performance.reasoning,
     performance_notes |-> performance.evaluation_notes]

\* the record of a concept whose performance was evaluated
TestedRecord(concept, qns, mistake_questions, performance, concept_reasoning) ==
    [concept |-> concept, tested_count |-> Len(qns),
     mistakes_count |-> Len(mistake_questions),
     mistake_questions |-> mistake_questions, details |-> performance.details,
     concept_reasoning |-> concept_reasoning,
     performance_reasoning |-> performance.reasoning,
     performance_notes |-> performance.evaluation_notes]

\* the loop body with `continue` for an untested concept: no record is appended
ConceptStep_skip ==
    /\ pc = "loop"
    /\ UNCHANGED parse_vars
    /\ UNCHANGED <<session_vars, app_vars>>
    /\ UNCHANGED project_vars
    /\ UNCHANGED <<question_reasoning, last_question_reasoning, last_mapping_notes,
                   mapped, service>>
    /\ LET concept == concepts[idx]
           tr      == trace \o progress(progress_callback, "eval", idx, Len(concepts))
           qns     == question_numbers_of(get_questions(concept_questions, concept))
           cr      == extract_concept_reasoning(question_reasoning, concept)
       IN IF ~qns.ok \/ ~cr.ok
          THEN /\ Abort(DriverError("ValueError", "int"), tr)
               /\ UNCHANGED <<idx, question_numbers, results, returned>>
          ELSE IF qns.val = <<>>
          THEN /\ Proceed(idx + 1, results, tr)
               /\ UNCHANGED <<question_numbers, error>>
          ELSE /\ question_numbers' = qns.val
               /\ trace' = tr
               /\ pc' = "eval"
               /\ UNCHANGED <<idx, results, returned, error>>
    /\ UNCHANGED <<progress_callback, concepts, concept_questions, mapping_response,
                   direct, numbers_raw, coerced>>

\* the loop body with a cache: a concept name already recorded is not evaluated
\* again, its earlier record is appended
ConceptStep_dedupe ==
    /\ pc = "loop"
    /\ UNCHANGED parse_vars
    /\ UNCHANGED <<session_vars, app_vars>>
    /\ UNCHANGED project_vars
    /\ UNCHANGED <<question_reasoning, last_question_reasoning, last_mapping_notes,
                   mapped, service>>
    /\ LET concept == concepts[idx]
           tr      == trace \o progress(progress_callback, "eval", idx, Len(concepts))
           qns     == question_numbers_of(get_questions(concept_questions, concept))
           cr      == extract_concept_reasoning(question_reasoning, concept)
           seen    == {j \in 1..Len(results) : results[j].concept = concept}
       IN IF ~qns.ok \/ ~cr.ok
          THEN /\ Abort(DriverError("ValueError", "int"), tr)
               /\ UNCHANGED <<idx, question_numbers, results, returned>>
          ELSE IF qns.val = <<>>
          THEN /\ Proceed(idx + 1, Append(results, UntestedRecord(concept, cr.val)),
                          tr \o <<Sleep(idx)>>)
               /\ UNCHANGED <<question_numbers, error>>
          ELSE IF seen # {}
          THEN /\ Proceed(idx + 1, Append(results, results[CHOOSE j \in seen : TRUE]),
                          tr \o <<Sleep(idx)>>)
               /\ UNCHANGED <<question_numbers, error>>
          ELSE /\ question_numbers' = qns.val
               /\ trace' = tr
               /\ pc' = "eval"
               /\ UNCHANGED <<idx, results, returned, error>>
    /\ UNCHANGED <<progress_callback, concepts, concept_questions, mapping_response,
                   direct, numbers_raw, coerced>>

\* Step 3, the loop body for concepts[idx] up to the point where the concept is
\* recorded as untested (and the loop goes on) or its evaluation call is due.
ConceptStep ==
    /\ pc = "loop"
    /\ UNCHANGED parse_vars
    /\ UNCHANGED <<session_vars, app_vars>>
    /\ UNCHANGED project_vars
    /\ UNCHANGED <<question_reasoning, last_question_reasoning, last_mapping_notes,
                   mapped, service>>
    /\ LET concept == concepts[idx]
           tr      == trace \o progress(progress_callback, "eval", idx, Len(concepts))
           qns     == question_numbers_of(get_questions(concept_questions, concept))
           cr      == extract_concept_reasoning(question_reasoning, concept)
       IN IF ~qns.ok \/ ~cr.ok
          THEN /\ Abort(DriverError("ValueError", "int"), tr)
               /\ UNCHANGED <<idx, question_numbers, results, returned>>
          ELSE IF qns.val = <<>>
          THEN /\ Proceed(idx + 1, Append(results, UntestedRecord(concept, cr.val)),
                          tr \o <<Sleep(idx)>>)
               /\ UNCHANGED <<question_numbers, error>>
          ELSE /\ question_numbers' = qns.val
               /\ trace' = tr
               /\ pc' = "eval"
               /\ UNCHANGED <<idx, results, returned, error>>
    /\ UNCHANGED <<progress_callback, concepts, concept_questions, mapping_response,
                   direct, numbers_raw, coerced>>

\* Step 3, the else branch: performance = self.analyze_student_performance(...),
\* the mistakes are coerced, the record appended, then time.sleep(0.5)
EvaluatePerformance ==
    /\ pc = "eval"
    /\ UNCHANGED parse_vars
    /\ UNCHANGED <<session_vars, app_vars>>
    /\ UNCHANGED project_vars
    /\ UNCHANGED <<question_reasoning, last_question_reasoning, last_mapping_notes,
                   mapped, service>>
    /\ \E resp \in PerfResponses :
          LET concept == concepts[idx]
              out == analyze_student_performance(concept, question_numbers, resp)
              tr  == trace \o (IF out.issued THEN <<Call("eval", idx, resp)>> ELSE <<>>)
                           \o <<Event(IF out.ok THEN "return" ELSE "fail", "eval", idx)>>
              mqs == mistake_questions_of(out.value.mistakes)
              cr  == extract_concept_reasoning(question_reasoning, concept)
          IN IF ~out.ok
             THEN Abort(out.error, tr) /\ UNCHANGED <<idx, results, returned>>
             ELSE IF ~mqs.ok
             THEN /\ Abort(DriverError("ValueError", "int"), tr)
                  /\ UNCHANGED <<idx, results, returned>>
             ELSE /\ Proceed(idx + 1,
                             Append(results,
                                 TestedRecord(concept, question_numbers, mqs.val, out.value,
                                              cr.val)),
                             tr \o <<Sleep(idx)>>)
                  /\ UNCHANGED error
    /\ UNCHANGED <<progress_callback, concepts, concept_questions, question_numbers,
                   mapping_response, direct, numbers_raw, coerced>>

\* analyze_student_performance called on its own, outside analyze_all_concepts
DirectPerformance ==
    /\ pc = "idle"
    /\ UNCHANGED parse_vars
    /\ UNCHANGED <<session_vars, app_vars>>
    /\ UNCHANGED project_vars
    /\ \E qns \in QLists, resp \in AllPerfResponses :
          LET out == analyze_student_performance("A", qns, resp)
          IN /\ direct' = [called |-> TRUE, question_numbers |-> qns,
                           response |-> IF out.issued THEN resp ELSE NoResponse,
                           ok |-> out.ok, issued |-> out.issued, value |-> out.value]
             /\ error' = out.error
             /\ trace' = trace \o (IF out.issued THEN <<Call("eval", 0, resp)>> ELSE <<>>)
    /\ pc' = "direct"
    /\ UNCHANGED <<progress_callback, concepts, concept_questions, idx, question_numbers,
                   results, returned, mapping_response, numbers_raw, coerced>>
    /\ UNCHANGED <<question_reasoning, last_question_reasoning, last_mapping_notes,
                   mapped, service>>

\* analyze_question_paper called on its own, outside analyze_all_concepts
DirectQuestionPaper ==
    /\ pc = "idle"
    /\ UNCHANGED parse_vars
    /\ UNCHANGED <<session_vars, app_vars>>
    /\ UNCHANGED project_vars
    /\ \E cs \in SeqUpTo(Concepts, MaxConcepts), resp \in AllMapResponses :
          LET out == analyze_question_paper(resp, cs)
          IN /\ mapped' = [called |-> TRUE, concepts |-> cs, response |-> resp,
                           ok |-> out.ok, value |-> out.value]
             /\ error' = out.error
             /\ trace' = trace \o <<Call("map", 0, resp)>>
             /\ IF out.ok
                THEN /\ last_question_reasoning' = out.value.question_reasoning
                     /\ last_mapping_notes' = out.value.evaluation_notes
                ELSE UNCHANGED <<last_question_reasoning, last_mapping_notes>>
    /\ pc' = "direct"
    /\ UNCHANGED <<progress_callback, concepts, concept_questions, idx, question_numbers,
                   results, returned, mapping_response, direct, numbers_raw, coerced,
                   question_reasoning, service>>

Next ==
    \/ Start
    \/ ExtractConcepts
    \/ AnalyzeQuestionPaper
    \/ ConceptStep
    \/ EvaluatePerformance
    \/ DirectPerformance
    \/ DirectQuestionPaper

Spec == Init /\ [][Next]_vars

\* The same runs under the scheduling of the code: analyze_all_concepts is
\* straight-line code around one for loop over a finite list, every statement of
\* it is executed once control reaches it, and an inference call that returns or
\* fails hands control back. Starting a run is the caller's choice and is not
\* forced.
RunStep ==
    \/ ExtractConcepts
    \/ AnalyzeQuestionPaper
    \/ ConceptStep
    \/ EvaluatePerformance

SpecLive == Init /\ [][Next]_vars /\ WF_vars(RunStep)

\* ----------------------------------- the runs with a service that explains
InitReasoned ==
    /\ pc = "idle"
    /\ numbers_raw = <<>>
    /\ service = "reasoned"
    /\ NoText
    /\ NotProjected
    /\ NoSession
    /\ NoApp
    /\ Fresh

SpecReasoned == InitReasoned /\ [][Next]_vars

\* ------------------------------------------- the coercion loops on their own
\* characters of the identifier strings given to the coercion
Chars == {"3", " ", "x", "sup2"}

CoerceIds ==
    {IntId(3), OtherId} \cup {StrId(s) : s \in SeqUpTo(Chars, MaxStr)}

InitCoerce ==
    /\ pc = "coerce"
    /\ numbers_raw \in SeqUpTo(CoerceIds, MaxLen)
    /\ service = "plain"
    /\ NoText
    /\ NotProjected
    /\ NoSession
    /\ NoApp
    /\ Fresh

\* both coercion loops of analyze_all_concepts run on numbers_raw
CoerceNumbers ==
    /\ pc = "coerce"
    /\ UNCHANGED parse_vars
    /\ UNCHANGED <<session_vars, app_vars>>
    /\ UNCHANGED project_vars
    /\ UNCHANGED <<question_reasoning, last_question_reasoning, last_mapping_notes,
                   mapped, service>>
    /\ coerced' = [done |-> TRUE, questions |-> question_numbers_of(numbers_raw),
                   mistakes |-> mistake_questions_of(numbers_raw)]
    /\ pc' = "coerced"
    /\ UNCHANGED <<progress_callback, concepts, concept_questions, idx, question_numbers,
                   results, returned, error, mapping_response, trace, direct, numbers_raw>>

SpecCoerce == InitCoerce /\ [][CoerceNumbers]_vars

\* ------------------------------------------ the parsing of a response text
MaxPad == 1

\* white space around a response text
Pads == SeqUpTo({" ", "nl"}, MaxPad)

Payloads == {PayloadA, PayloadTicks, StrayBefore, StrayAfter, <<>>}

\* how a payload is wrapped: not at all, or in a fenced block that is opened
\* without a language tag, with the tag json, or with another tag
Fences == {"none", "bare", "json", "python"}

Stages == {"extract", "map", "eval"}

\* the response text for what the service sent
Wrap(s) ==
    s.lead
    \o (CASE s.fence = "none"   -> s.payload
          [] s.fence = "bare"   -> <<Fence, "nl">> \o s.payload \o <<"nl", Fence>>
          [] s.fence = "json"   -> <<Fence, "json", "nl">> \o s.payload \o <<"nl", Fence>>
          [] s.fence = "python" -> <<Fence, "python", "nl">> \o s.payload \o <<"nl", Fence>>)
    \o s.trail

InitParse ==
    /\ pc = "parse"
    /\ numbers_raw = <<>>
    /\ service = "plain"
    /\ sent \in [stage : Stages, payload : Payloads, fence : Fences,
                  lead : Pads, trail : Pads]
    /\ response_text = Wrap(sent)
    /\ parsed = NotParsed
    /\ NotProjected
    /\ NoSession
    /\ NoApp
    /\ Fresh

\* the stage strips the fence and decodes response_text
ParseResponse ==
    /\ pc = "parse"
    /\ LET out == parse_response(sent.stage, response_text)
       IN /\ parsed' = [done |-> TRUE, ok |-> out.ok, value |-> out.value,
                        error |-> out.error, message |-> out.message]
          /\ error' = out.error
    /\ pc' = "parsed"
    /\ UNCHANGED <<progress_callback, concepts, concept_questions, idx, question_numbers,
                   results, returned, mapping_response, trace, direct, numbers_raw,
                   coerced, question_reasoning, last_question_reasoning,
                   last_mapping_notes, mapped, service, sent, response_text>>
    /\ UNCHANGED project_vars
    /\ UNCHANGED <<session_vars, app_vars>>

SpecParse == InitParse /\ [][ParseResponse]_vars

\* ------------------------------ _extract_concept_reasoning on its own
MaxAlign == 3

MaxEntries == 3

\* the alignments of an entry: a concept, and a confidence or none
Alignments ==
    {Alignment(c, k) : c \in Concepts, k \in {"low", "medium", "high", "absent"}}

\* lists of one entry with any alignments; its question is an int or the
\* superscript two
OneEntryLists ==
    {<<ReasoningEntry(q, l)>> :
        q \in {IntId(1), StrId(<<"sup2">>)}, l \in SeqUpTo(Alignments, MaxAlign)}

\* entries for question 1 or 2 with no alignment or one
PlainEntries ==
    {ReasoningEntry(IntId(q), l) :
        q \in {1, 2},
        l \in {<<>>, <<Alignment("A", "low")>>, <<Alignment("A", "high")>>,
               <<Alignment("B", "high")>>}}

InitProject ==
    /\ pc = "project"
    /\ numbers_raw = <<>>
    /\ service = "plain"
    /\ NoText
    /\ NoSession
    /\ NoApp
    /\ target \in Concepts
    /\ filtered_reasoning = NotFiltered
    /\ concepts = <<>>
    /\ progress_callback = FALSE
    /\ concept_questions = <<>>
    /\ idx = 0
    /\ question_numbers = <<>>
    /\ results = <<>>
    /\ returned = NotReturned
    /\ error = NoError
    /\ mapping_response = NoResponse
    /\ trace = <<>>
    /\ direct = NoDirect
    /\ coerced = NotCoerced
    /\ question_reasoning \in OneEntryLists \cup SeqUpTo(PlainEntries, MaxEntries)
    /\ last_question_reasoning = <<>>
    /\ last_mapping_notes = <<>>
    /\ mapped = NotMapped

\* GeminiAnalyzer._extract_concept_reasoning(question_reasoning, target)
ExtractConceptReasoning ==
    /\ pc = "project"
    /\ LET out == extract_concept_reasoning(question_reasoning, target)
       IN /\ filtered_reasoning' = [done |-> TRUE, ok |-> out.ok, val |-> out.val]
          /\ error' = IF out.ok THEN NoError ELSE DriverError("ValueError", "int")
    /\ pc' = "projected"
    /\ UNCHANGED parse_vars
    /\ UNCHANGED <<session_vars, app_vars>>
    /\ UNCHANGED <<progress_callback, concepts, concept_questions, idx, question_numbers,
                   results, returned, mapping_response, trace, direct, numbers_raw,
                   coerced, question_reasoning, last_question_reasoning,
                   last_mapping_notes, mapped, service, target>>

SpecProject == InitProject /\ [][ExtractConceptReasoning]_vars


\* ------------------- one analyzer, its methods called one after another
MaxCalls == 3

\* the mapping responses of the session: every failure, and the objects with an
\* empty concept_map, each optional key absent or present
SessionMapResponses ==
    {resp \in AllMapResponses : resp.shape = "object" => DOMAIN resp.concept_map = {}}

InitSession ==
    /\ pc = "session"
    /\ numbers_raw = <<>>
    /\ service = "plain"
    /\ NoText
    /\ NotProjected
    /\ NoSession
    /\ NoApp
    /\ Fresh

\* the fields are cleared whenever the method does not succeed
last_fields_after_reset(out, before) ==
    [question_reasoning |-> out.value.question_reasoning,
     evaluation_notes |-> out.value.evaluation_notes]

\* self.last_question_reasoning = question_reasoning and self.last_mapping_notes
\* = evaluation_notes: the last statements of the try block before the return,
\* reached only if nothing was raised
last_fields_after(out, before) ==
    IF out.ok
    THEN [question_reasoning |-> out.value.question_reasoning,
          evaluation_notes |-> out.value.evaluation_notes]
    ELSE before

\* analyzer.extract_concepts(...)
SessionExtractConcepts ==
    /\ pc = "session"
    /\ calls_made < MaxCalls
    /\ \E resp \in ExtractResponses :
          LET out == extract_concepts(resp)
          IN /\ last_call' = [NoCall EXCEPT !.method = "extract_concepts", !.ok = out.ok]
             /\ error' = out.error
    /\ calls_made' = calls_made + 1
    /\ UNCHANGED <<pc, last_question_reasoning, last_mapping_notes>>
    /\ UNCHANGED <<pipeline_vars, parse_vars, project_vars, app_vars>>

\* analyzer.analyze_question_paper(...)
SessionAnalyzeQuestionPaper ==
    /\ pc = "session"
    /\ calls_made < MaxCalls
    /\ \E cs \in {<<>>, <<"A">>}, resp \in SessionMapResponses :
          LET out   == analyze_question_paper(resp, cs)
              after == last_fields_after(out,
                          [question_reasoning |-> last_question_reasoning,
                           evaluation_notes |-> last_mapping_notes])
          IN /\ last_call' = [method |-> "analyze_question_paper", ok |-> out.ok,
                              question_reasoning |-> out.value.question_reasoning,
                              evaluation_notes |-> out.value.evaluation_notes]
             /\ error' = out.error
             /\ last_question_reasoning' = after.question_reasoning
             /\ last_mapping_notes' = after.evaluation_notes
    /\ calls_made' = calls_made + 1
    /\ UNCHANGED pc
    /\ UNCHANGED <<pipeline_vars, parse_vars, project_vars, app_vars>>

\* analyzer.analyze_student_performance(...)
SessionAnalyzeStudentPerformance ==
    /\ pc = "session"
    /\ calls_made < MaxCalls
    /\ \E qns \in {<<>>, <<1>>}, resp \in PerfResponses :
          LET out == analyze_student_performance("A", qns, resp)
          IN /\ last_call' = [NoCall EXCEPT !.method = "analyze_student_performance",
                                            !.ok = out.ok]
             /\ error' = out.error
    /\ calls_made' = calls_made + 1
    /\ UNCHANGED <<pc, last_question_reasoning, last_mapping_notes>>
    /\ UNCHANGED <<pipeline_vars, parse_vars, project_vars, app_vars>>

\* analyzer._extract_concept_reasoning(...)
SessionExtractConceptReasoning ==
    /\ pc = "session"
    /\ calls_made < MaxCalls
    /\ \E reasoning \in ReasoningLists, concept \in Concepts :
          LET out == extract_concept_reasoning(reasoning, concept)
          IN /\ last_call' = [NoCall EXCEPT !.method = "_extract_concept_reasoning",
                                            !.ok = out.ok]
             /\ error' = IF out.ok THEN NoError ELSE DriverError("ValueError", "int")
    /\ calls_made' = calls_made + 1
    /\ UNCHANGED <<pc, last_question_reasoning, last_mapping_notes>>
    /\ UNCHANGED <<pipeline_vars, parse_vars, project_vars, app_vars>>

NextSession ==
    \/ SessionExtractConcepts
    \/ SessionAnalyzeQuestionPaper
    \/ SessionAnalyzeStudentPerformance
    \/ SessionExtractConceptReasoning

SpecSession == InitSession /\ [][NextSession]_vars


\* ----------------------------------------- app.py: the Analyze button
MaxRuns == 3

\* a value made by the handler of click number run from a result list of the
\* given length
Made(kind, run, records) == [kind |-> kind, run |-> run, records |-> records]

InitApp ==
    /\ pc = "app_idle"
    /\ numbers_raw = <<>>
    /\ service = "plain"
    /\ NoText
    /\ NotProjected
    /\ NoSession
    /\ NoApp
    /\ Fresh

\* the script has run to its end: the next click starts it again
ScriptEnded == pc \in {"app_idle", "app_failed", "app_shown"}

app_frame ==
    UNCHANGED <<pipeline_vars, parse_vars, project_vars, session_vars, error,
                last_question_reasoning, last_mapping_notes>>

\* if analyze_button: the two validations, each st.error(...) and return
AnalyzeClicked ==
    /\ ScriptEnded
    /\ analyze_runs < MaxRuns
    /\ analyze_runs' = analyze_runs + 1
    /\ at_click' = session_state
    /\ run_locals' = NoLocals
    /\ \E api_key \in BOOLEAN, uploaded \in BOOLEAN :
          pc' = IF api_key /\ uploaded THEN "app_documents" ELSE "app_failed"
    /\ UNCHANGED session_state
    /\ app_frame

\* processor.process_uploaded_file(file) for every file: raises or not
ProcessDocuments ==
    /\ pc = "app_documents"
    /\ \E ok \in BOOLEAN : pc' = IF ok THEN "app_analyze" ELSE "app_failed"
    /\ UNCHANGED app_vars
    /\ app_frame

\* analyzer = GeminiAnalyzer(...); results = analyzer.analyze_all_concepts(...):
\* an exception, or a list of records
AnalyzeAllConcepts ==
    /\ pc = "app_analyze"
    /\ \/ /\ pc' = "app_failed"
          /\ UNCHANGED run_locals
       \/ \E n \in 0..MaxConcepts :
             /\ run_locals' = [run_locals EXCEPT !.results = Made("results", analyze_runs, n)]
             /\ pc' = "app_excel"
    /\ UNCHANGED <<analyze_runs, session_state, at_click>>
    /\ app_frame

\* excel_data, _ = ReportGenerator.create_downloadable_excel(results)
CreateExcel ==
    /\ pc = "app_excel"
    /\ \/ /\ pc' = "app_failed"
          /\ UNCHANGED run_locals
       \/ /\ run_locals' = [run_locals EXCEPT !.excel_data =
                                Made("xlsx", run_locals.results.run,
                                     run_locals.results.records)]
          /\ pc' = "app_pdf"
    /\ UNCHANGED <<analyze_runs, session_state, at_click>>
    /\ app_frame

\* pdf_data, _ = ReportGenerator.create_downloadable_pdf(results)
CreatePdf ==
    /\ pc = "app_pdf"
    /\ \/ /\ pc' = "app_failed"
          /\ UNCHANGED run_locals
       \/ /\ run_locals' = [run_locals EXCEPT !.pdf_data =
                                Made("pdf", run_locals.results.run,
                                     run_locals.results.records)]
          /\ pc' = "app_store"
    /\ UNCHANGED <<analyze_runs, session_state, at_click>>
    /\ app_frame

\* only the results and the flag are stored, the two reports are forgotten
store_results_only(state, locals) ==
    [state EXCEPT !.results = locals.results, !.analysis_complete = TRUE]

\* st.session_state.results = results, .excel_data = excel_data, .pdf_data =
\* pdf_data, .analysis_complete = True
store(state, locals) ==
    [analysis_complete |-> TRUE, results |-> locals.results,
     excel_data |-> locals.excel_data, pdf_data |-> locals.pdf_data]

\* the four assignments, with no statement between them that can raise
StoreResults ==
    /\ pc = "app_store"
    /\ session_state' = store(session_state, run_locals)
    /\ pc' = "app_shown"
    /\ UNCHANGED <<analyze_runs, run_locals, at_click>>
    /\ app_frame

NextApp ==
    \/ AnalyzeClicked
    \/ ProcessDocuments
    \/ AnalyzeAllConcepts
    \/ CreateExcel
    \/ CreatePdf
    \/ StoreResults

SpecApp == InitApp /\ [][NextApp]_vars


\* ============================================================== claims
IsCall(e) == e.ev = "call"

\* the inference calls made so far, in order
Calls == SelectSeq(trace, IsCall)

\* answers that are a failure of the stage: transport failure, non-JSON
\* response, or a decoded value that violates the stage's contract
FailureAnswers(stage) ==
    {"transport", "nonjson"}
    \cup (IF stage = "extract" THEN {"scalar"}
          ELSE IF stage = "map"
          THEN {"not_object", "no_concept_map", "concept_map_not_dict"}
          ELSE {"not_object"})

\* the session is (or was) a run of analyze_all_concepts
InRun == pc \in {"extract", "map", "loop", "eval", "done", "failed"}

\* C1: in analyze_all_concepts, once the extraction call, the mapping call or a
\* performance-evaluation call has failed, the run has ended with an exception
\* and nothing was returned, whatever records were already assembled.
C1_FailurePropagates ==
    \A i \in 1..Len(trace) :
        (InRun /\ IsCall(trace[i]) /\ trace[i].answer \in FailureAnswers(trace[i].stage))
        => /\ pc = "failed"
           /\ error.type # "none"
           /\ returned = NotReturned

\* a performance-evaluation call failed after a record had been assembled
C1_Witness ==
    /\ pc = "failed"
    /\ Len(results) >= 1
    /\ Calls[Len(Calls)].stage = "eval"
    /\ Calls[Len(Calls)].answer \in FailureAnswers("eval")

\* C2: in every returned result list, each record's mistakes_count is the
\* length of its mistake_questions and its tested_count is the length of the
\* coerced question-number list mapped to its concept.
C2_CountsAreLengths ==
    returned.set =>
        \A i \in 1..Len(returned.value) :
            LET r == returned.value[i]
            IN /\ r.mistakes_count = Len(r.mistake_questions)
               /\ r.tested_count =
                     Len(question_numbers_of(get_questions(concept_questions, r.concept)).val)

\* a returned record with two tested questions and a repeated mistake
C2_Witness ==
    /\ returned.set
    /\ \E i \in 1..Len(returned.value) :
          /\ returned.value[i].tested_count = 2
          /\ returned.value[i].mistake_questions = <<IntId(1), IntId(1)>>

\* analyze_question_paper has returned (successfully) in this run
MappingReturned ==
    \E i \in 1..Len(trace) : trace[i].ev = "return" /\ trace[i].stage = "map"

\* C3: when analyze_question_paper returns for the concept list, every concept
\* of the list is a key of the concept_map; a concept the response omitted maps
\* to the empty list, one it supplied keeps the list of the response.
C3_EveryConceptMapped ==
    MappingReturned =>
        \A i \in 1..Len(concepts) :
            LET c == concepts[i]
            IN /\ c \in DOMAIN concept_questions
               /\ IF c \in DOMAIN mapping_response.concept_map
                  THEN concept_questions[c] = mapping_response.concept_map[c]
                  ELSE concept_questions[c] = <<>>

\* the response omitted "A" and supplied a non-empty list for "B"
C3_Witness ==
    /\ MappingReturned
    /\ concepts = <<"A", "B">>
    /\ DOMAIN mapping_response.concept_map = {"B"}
    /\ concept_questions["B"] # <<>>

\* C4: a concept whose mapped question list is empty gets a record with
\* tested_count = 0 and mistakes_count = 0 and no performance-evaluation call;
\* analyze_student_performance called with an empty list returns the empty
\* result without a call.
C4_UntestedNeverEvaluated ==
    /\ MappingReturned =>
          \A i \in 1..Len(concepts) :
              get_questions(concept_questions, concepts[i]) = <<>> =>
                  /\ \A k \in 1..Len(Calls) : ~(Calls[k].stage = "eval" /\ Calls[k].idx = i)
                  /\ (idx > i \/ pc = "done") =>
                        /\ Len(results) >= i
                        /\ results[i].concept = concepts[i]
                        /\ results[i].tested_count = 0
                        /\ results[i].mistakes_count = 0
                  /\ ~(idx = i /\ pc = "eval")
    /\ (direct.called /\ direct.question_numbers = <<>>) =>
          /\ direct.ok
          /\ ~direct.issued
          /\ direct.value = EmptyPerformance
          /\ Calls = <<>>

\* "A" is tested and evaluated, "B" is untested, and the run has returned
C4_Witness ==
    /\ returned.set
    /\ concepts = <<"A", "B">>
    /\ concept_questions["A"] # <<>>
    /\ concept_questions["B"] = <<>>
    /\ Len(Calls) = 3
    /\ returned.value[2].tested_count = 0


\* what the claim says one coercion loop makes of numbers_raw
CoercedAsClaimed(out) ==
    /\ out.ok
    /\ Len(out.val) = Len(numbers_raw)
    /\ \A i \in 1..Len(numbers_raw) :
          LET x == numbers_raw[i]
          IN IF x.t = "str" /\ isdigit(strip(x.s))
             THEN out.val[i].t = "int" /\ str_of_int(out.val[i].n) = strip(x.s)
             ELSE out.val[i] = x

\* C5: the identifier coercion, for the mapped question numbers and for the
\* mistakes alike, keeps an integer, turns a digit string into the integer it
\* denotes and passes any other value through unchanged, so that the coerced
\* list has the length and order of the raw list.
C5_CoercionTotal ==
    coerced.done => CoercedAsClaimed(coerced.questions) /\ CoercedAsClaimed(coerced.mistakes)

\* C6: every record of a returned result list has
\* 0 <= mistakes_count <= tested_count.
C6_MistakesWithinTested ==
    returned.set =>
        \A i \in 1..Len(returned.value) :
            /\ 0 <= returned.value[i].mistakes_count
            /\ returned.value[i].mistakes_count <= returned.value[i].tested_count

\* C7: in every record of a returned result list, each key of details is the
\* string form of a question number of the record's mistake_questions.
C7_DetailsKeysAreMistakes ==
    returned.set =>
        \A i \in 1..Len(returned.value) :
            \A key \in returned.value[i].details :
                \E j \in 1..Len(returned.value[i].mistake_questions) :
                    str(returned.value[i].mistake_questions[j]) = key

\* C8: no two records of a returned result list carry the same concept name.
C8_ConceptNamesUnique ==
    returned.set =>
        \A i, j \in 1..Len(returned.value) :
            returned.value[i].concept = returned.value[j].concept => i = j

\* C9: the inference calls of a run are the extraction call, then the mapping
\* call, then performance evaluations in the order of the extracted list; the
\* mapping call is made only after the extraction succeeded and an evaluation
\* call only after the mapping succeeded.
C9_CallOrder ==
    InRun =>
        /\ \A k \in 1..Len(Calls) :
              Calls[k].stage = (IF k = 1 THEN "extract" ELSE IF k = 2 THEN "map" ELSE "eval")
        /\ Len(Calls) >= 2 => Calls[1].answer \notin FailureAnswers("extract")
        /\ Len(Calls) >= 3 => Calls[2].answer \notin FailureAnswers("map")
        /\ \A k \in 3..Len(Calls) : Calls[k].idx \in 1..Len(concepts)
        /\ \A j, k \in 3..Len(Calls) : j < k => Calls[j].idx < Calls[k].idx

\* a finished run over <<"B", "A">> that evaluated both, "B" first
C9_Witness ==
    /\ pc = "done"
    /\ concepts = <<"B", "A">>
    /\ Len(Calls) = 4
    /\ Calls[3].idx = 1
    /\ Calls[4].idx = 2

\* C10: a returned result list has exactly one record per extracted concept,
\* in extraction order; a key of the concept_map that is no extracted concept
\* has no record.
C10_OneRecordPerConcept ==
    returned.set =>
        /\ Len(returned.value) = Len(concepts)
        /\ \A i \in 1..Len(concepts) : returned.value[i].concept = concepts[i]

\* a returned run over <<"B">> alone, where the concept_map also had the key
\* "A", and one over an untested concept
C10_Witness ==
    /\ returned.set
    /\ concepts = <<"B">>
    /\ DOMAIN concept_questions = {"A", "B"}
    /\ concept_questions["A"] # <<>>
    /\ concept_questions["B"] = <<>>
    /\ Len(returned.value) = 1

\* positions of the extracted list whose mapped question list is not empty
TestedPositions ==
    {i \in 1..Len(concepts) : get_questions(concept_questions, concepts[i]) # <<>>}

\* C11: no inference call is retried or deduplicated: a stage is called once
\* per invocation (no two calls of a run are for the same stage and position),
\* a finished run over the extracted list has made exactly 2 + (number of its
\* entries with a non-empty mapped question list) calls, and a failed call is
\* the last call of its run.
C11_NoRetryNoDedupe ==
    InRun =>
        LET calls == Calls
        IN /\ \A j, k \in 1..Len(calls) :
                 (calls[j].stage = calls[k].stage /\ calls[j].idx = calls[k].idx) => j = k
           /\ pc = "done" => Len(calls) = 2 + Cardinality(TestedPositions)
           /\ \A k \in 1..Len(calls) :
                 calls[k].answer \in FailureAnswers(calls[k].stage) => k = Len(calls)

\* a finished run over <<"A", "A">> with "A" tested: four calls, two of them
\* evaluations of the same concept
C11_Witness ==
    /\ pc = "done"
    /\ concepts = <<"A", "A">>
    /\ Len(Calls) = 4

\* a pacing delay lies in the trace strictly between positions p and q
DelayBetween(p, q) ==
    \E r \in (p + 1)..(q - 1) : trace[r].ev = "sleep" /\ trace[r].n = PacingDelay

\* the positions of the inference calls in the trace
CallPositions == {r \in 1..Len(trace) : IsCall(trace[r])}

\* the pairs <<p, q>> of positions of two consecutive inference calls
ConsecutiveCalls ==
    LET cps == CallPositions
    IN {pq \in cps \X cps :
           pq[1] < pq[2] /\ \A r \in cps : ~(pq[1] < r /\ r < pq[2])}

\* C12 as stated: between any two consecutive inference calls of a run
\* (extraction, mapping and the evaluations) lies a pacing delay of 0.5.
C12_DelayBetweenAnyTwoCalls ==
    InRun => \A pq \in ConsecutiveCalls : DelayBetween(pq[1], pq[2])

\* C12, amended: a pacing delay of 0.5 ends every completed pass of the
\* per-concept loop (one per record), so that one lies between any two
\* consecutive performance-evaluation calls; every delay has that one length.
C12_DelayAfterEveryPass ==
    InRun =>
        /\ \A pq \in ConsecutiveCalls :
              (trace[pq[1]].stage = "eval" /\ trace[pq[2]].stage = "eval")
              => DelayBetween(pq[1], pq[2])
        /\ \A r \in 1..Len(trace) : trace[r].ev = "sleep" => trace[r].n = PacingDelay
        /\ \A i \in 1..Len(results) :
              Cardinality({r \in 1..Len(trace) :
                              trace[r].ev = "sleep" /\ trace[r].idx = i}) = 1

\* a finished run with two evaluation calls
C12_Witness ==
    /\ pc = "done"
    /\ Len(Calls) = 4
    /\ Len(results) = 2

\* the progress messages of the trace, in order
RECURSIVE ProgressOf(_)
ProgressOf(tr) ==
    IF tr = <<>> THEN <<>>
    ELSE IF Head(tr).ev = "progress" THEN <<Head(tr)>> \o ProgressOf(Tail(tr))
         ELSE ProgressOf(Tail(tr))

\* the per-concept progress messages of the trace, in order
EvalProgress == SelectSeq(ProgressOf(trace), LAMBDA e : e.stage = "eval")

\* C13: with a progress callback, every inference call of the run comes right
\* after a callback invocation for its stage and concept; the per-concept
\* messages are numbered 1/total, 2/total, ... in concept order; the completion
\* message is emitted exactly when the run succeeds.
C13_ProgressBeforeEachCall ==
    (InRun /\ progress_callback) =>
        /\ \A q \in 1..Len(trace) :
              IsCall(trace[q]) =>
                  /\ q > 1
                  /\ trace[q - 1].ev = "progress"
                  /\ trace[q - 1].stage = trace[q].stage
                  /\ trace[q - 1].idx = trace[q].idx
        /\ \A k \in 1..Len(EvalProgress) :
              /\ EvalProgress[k].idx = k
              /\ EvalProgress[k].n = Len(concepts)
        /\ (\E r \in 1..Len(trace) : trace[r].ev = "progress" /\ trace[r].stage = "done")
              <=> pc = "done"
        /\ \A r \in 1..Len(trace) :
              (trace[r].ev = "progress" /\ trace[r].stage = "done") => r = Len(trace)

\* a run with a callback that succeeded after two evaluation calls
C13_Witness ==
    /\ progress_callback
    /\ pc = "done"
    /\ Len(EvalProgress) = 2
    /\ Len(Calls) = 4

\* the stage methods that ended with an exception, as the trace records them
FailedStages == {trace[r].stage : r \in {q \in 1..Len(trace) : trace[q].ev = "fail"}}

\* C14: whenever a stage method of the run fails, the error that leaves the run
\* names that stage and carries the underlying failure; a non-JSON mapping
\* response aborts the run with an error naming the mapping stage.
C14_ErrorNamesStage ==
    InRun =>
        /\ \A s \in FailedStages :
              /\ pc = "failed"
              /\ error.stage = s
              /\ error.cause # "none"
              /\ Calls # <<>> /\ Calls[Len(Calls)].stage = s
                    => error.cause = Calls[Len(Calls)].answer
        /\ (Calls # <<>> /\ Calls[Len(Calls)] = Call("map", 0, Failed("nonjson")))
              => (pc = "failed" /\ error = StageError("map", "nonjson"))

\* the value of an optional key of a response object after normalization
Filled(has, value, default) == IF has THEN value ELSE default

\* C15: analyze_question_paper accepts a response object with a concept_map
\* that omits evaluation_notes and/or question_reasoning: no error is raised and
\* the omitted key is [] in the result (a key that is present keeps its value).
C15_OptionalKeysDefaulted ==
    (mapped.called /\ mapped.response.kind = "json" /\ mapped.response.shape = "object")
    => /\ mapped.ok
       /\ error = NoError
       /\ mapped.value.evaluation_notes =
              Filled(mapped.response.has_evaluation_notes,
                     mapped.response.evaluation_notes, <<>>)
       /\ mapped.value.question_reasoning =
              Filled(mapped.response.has_question_reasoning,
                     mapped.response.question_reasoning, <<>>)

\* a response with question_reasoning and without evaluation_notes was accepted
C15_Witness ==
    /\ mapped.called
    /\ mapped.ok
    /\ mapped.response.has_question_reasoning
    /\ mapped.response.question_reasoning = ReasoningAB
    /\ ~mapped.response.has_evaluation_notes
    /\ mapped.value.evaluation_notes = <<>>

\* a decoded mapping response is a JSON object, with or without "concept_map"
IsMappingObject(resp) ==
    resp.kind = "json" /\ resp.shape \in {"object", "no_concept_map"}

\* C16 as stated: every missing key of a decoded mapping response object,
\* concept_map included, is filled with its default and no error is raised.
C16_MissingKeysDefaulted ==
    (mapped.called /\ IsMappingObject(mapped.response))
    => /\ mapped.ok
       /\ error = NoError
       /\ mapped.response.shape = "no_concept_map" =>
              \A c \in DOMAIN mapped.value.concept_map : mapped.value.concept_map[c] = <<>>

\* C16, amended: of the keys of the mapping schema, question_reasoning and
\* evaluation_notes are filled with [] when missing; a response object without
\* concept_map is refused with an error that names the mapping stage.
C16_ConceptMapRequired ==
    (mapped.called /\ IsMappingObject(mapped.response))
    => IF mapped.response.shape = "no_concept_map"
       THEN /\ ~mapped.ok
            /\ error = StageError("map", "no_concept_map")
       ELSE /\ mapped.ok
            /\ ~mapped.response.has_evaluation_notes => mapped.value.evaluation_notes = <<>>
            /\ ~mapped.response.has_question_reasoning =>
                   mapped.value.question_reasoning = <<>>

\* a response object without concept_map was refused
C16_Witness ==
    /\ mapped.called
    /\ mapped.response.shape = "no_concept_map"
    /\ ~mapped.ok
    /\ error.stage = "map"

\* C17: analyze_student_performance fills the keys a response object lacks
\* (mistakes = [], details = {}, reasoning = [], evaluation_notes = []), keeps
\* the values of the keys that are present and raises nothing; a decoded
\* response that is not an object is a hard failure.
C17_PerformanceDefaults ==
    (direct.called /\ direct.issued /\ direct.response.kind = "json")
    => IF direct.response.shape = "object"
       THEN /\ direct.ok
            /\ error = NoError
            /\ direct.value.mistakes =
                   Filled(direct.response.has_mistakes, direct.response.mistakes, <<>>)
            /\ direct.value.details =
                   Filled(direct.response.has_details, direct.response.details, {})
            /\ direct.value.reasoning =
                   Filled(direct.response.has_reasoning, direct.response.reasoning, <<>>)
            /\ direct.value.evaluation_notes =
                   Filled(direct.response.has_evaluation_notes,
                          direct.response.evaluation_notes, <<>>)
       ELSE /\ ~direct.ok
            /\ error = StageError("eval", direct.response.shape)

\* a response with mistakes and notes, without details and reasoning, was normalized
C17_Witness ==
    /\ direct.called
    /\ direct.ok
    /\ direct.response.has_mistakes /\ direct.response.mistakes # <<>>
    /\ direct.response.has_evaluation_notes /\ direct.response.evaluation_notes # <<>>
    /\ ~direct.response.has_details
    /\ ~direct.response.has_reasoning
    /\ direct.value.reasoning = <<>>

\* the positions of the entries of reasoning that have an alignment for concept
MatchingPositions(reasoning, concept) ==
    {k \in 1..Len(reasoning) :
        /\ reasoning[k].alignments_is_list
        /\ \E j \in 1..Len(reasoning[k].concept_alignments) :
              reasoning[k].concept_alignments[j].concept = concept}

\* the m-th smallest element of a set of positions
NthPosition(positions, m) ==
    CHOOSE k \in positions : Cardinality({p \in positions : p <= k}) = m

\* the alignments of a list that name the concept, in order, written without
\* the model's own filter
RECURSIVE AlignmentsFor(_, _)
AlignmentsFor(alignments, concept) ==
    IF alignments = <<>> THEN <<>>
    ELSE (IF Head(alignments).concept = concept THEN <<Head(alignments)>> ELSE <<>>)
         \o AlignmentsFor(Tail(alignments), concept)

\* C20: the concept_reasoning of every record, tested or not, holds one entry
\* for each entry of question_reasoning that has an alignment naming the
\* record's concept and for no other; the concept_alignments of a kept entry
\* are exactly the alignments of its source that name the concept.
C20_ConceptReasoningIsProjection ==
    \A i \in 1..Len(results) :
        LET concept == results[i].concept
            kept    == results[i].concept_reasoning
            from    == MatchingPositions(question_reasoning, concept)
        IN /\ Len(kept) = Cardinality(from)
           /\ \A m \in 1..Len(kept) :
                 LET source == question_reasoning[NthPosition(from, m)]
                 IN /\ kept[m].concept_alignments # <<>>
                    /\ \A j \in 1..Len(kept[m].concept_alignments) :
                          kept[m].concept_alignments[j].concept = concept
                    /\ kept[m].concept_alignments =
                          AlignmentsFor(source.concept_alignments, concept)

\* A finished run whose reasoning names A and B on question 1 and B alone on
\* another: the untested A keeps one entry with its two alignments, the tested B two.
C20_Witness ==
    /\ pc = "done"
    /\ question_reasoning = ReasoningAB
    /\ \E i, j \in 1..Len(results) :
          /\ results[i].concept = "A" /\ results[i].tested_count = 0
          /\ Len(results[i].concept_reasoning) = 1
          /\ Len(results[i].concept_reasoning[1].concept_alignments) = 2
          /\ results[j].concept = "B" /\ results[j].tested_count > 0
          /\ Len(results[j].concept_reasoning) = 2

\* the value a payload denotes, for the payloads that are JSON
Denotes(payload) ==
    CASE payload = PayloadA     -> "list A"
      [] payload = PayloadTicks -> "list a-fence-b"

\* C18: a JSON payload parses to the same value whether it comes in a fenced
\* block with a language tag (any tag), in a fenced block without a tag, or
\* with no fence, with white space around it, in every stage.
C18_FenceInsensitive ==
    (parsed.done /\ sent.payload \in {PayloadA, PayloadTicks})
    => (parsed.ok /\ parsed.value = Denotes(sent.payload))

\* s holds the sequence piece as consecutive elements
Contains(s, piece) == IndexOf(s, piece) # 0

\* C19: when decoding a response fails, the error raised carries the response
\* text (a leading part of it of bounded length); nothing is repaired beyond the
\* removal of the fence: a response without a leading fence and with stray text
\* around the JSON is a decode failure, never a value.
C19_ErrorCarriesResponseText ==
    parsed.done =>
        /\ (~parsed.ok /\ strip(response_text) # <<>>) =>
               \E n \in 1..Len(response_text) :
                   Contains(parsed.message, SubSeq(response_text, 1, n))
        /\ (sent.fence = "none" /\ sent.payload \in {StrayBefore, StrayAfter}) =>
               (~parsed.ok /\ parsed.value = "none")

\* low < medium < high, an absent confidence counting as medium
Rank(confidence) ==
    CASE confidence = "low"    -> 1
      [] confidence = "medium" -> 2
      [] confidence = "absent" -> 2
      [] confidence = "high"   -> 3

\* the ranks of the alignments of an entry that name the concept
RanksFor(entry, concept) ==
    {Rank(entry.concept_alignments[j].confidence) :
        j \in {i \in 1..Len(entry.concept_alignments) :
                  entry.concept_alignments[i].concept = concept}}

\* C21: the confidence of every entry _extract_concept_reasoning keeps is the
\* greatest, under low < medium < high with absent counted as medium, of the
\* confidences of its alignments that name the target concept; alignments of
\* other concepts have no part in it.
C21_ConfidenceIsMaxOfMatching ==
    (filtered_reasoning.done /\ filtered_reasoning.ok) =>
        LET from == MatchingPositions(question_reasoning, target)
        IN \A m \in 1..Len(filtered_reasoning.val) :
              LET source == question_reasoning[NthPosition(from, m)]
                  ranks  == RanksFor(source, target)
                  kept   == filtered_reasoning.val[m]
              IN /\ kept.confidence \in {"low", "medium", "high"}
                 /\ Rank(kept.confidence) \in ranks
                 /\ \A r \in ranks : r <= Rank(kept.confidence)

\* an entry with a low and an unrated alignment for A and a high one for B is
\* kept for A with confidence medium
C21_Witness ==
    /\ filtered_reasoning.done
    /\ filtered_reasoning.ok
    /\ target = "A"
    /\ Len(question_reasoning) = 1
    /\ question_reasoning[1].concept_alignments =
           <<Alignment("A", "low"), Alignment("B", "high"), Alignment("A", "absent")>>
    /\ Len(filtered_reasoning.val) = 1
    /\ filtered_reasoning.val[1].confidence = "medium"

\* kept comes from the entry source by the projection onto concept
DerivedFrom(kept, source, concept) ==
    /\ source.alignments_is_list
    /\ kept.question = source.question
    /\ kept.summary = source.summary
    /\ kept.concept_alignments # <<>>
    /\ kept.concept_alignments = AlignmentsFor(source.concept_alignments, concept)

\* C22: the output of _extract_concept_reasoning is a subsequence of
\* question_reasoning in the input's order: the kept entries come from
\* strictly increasing positions of the input, so none is moved and none
\* appears more often than in the input.
C22_OrderPreserved ==
    (filtered_reasoning.done /\ filtered_reasoning.ok) =>
        \E f \in [1..Len(filtered_reasoning.val) -> 1..Len(question_reasoning)] :
            /\ \A m, n \in DOMAIN f : m < n => f[m] < f[n]
            /\ \A m \in DOMAIN f :
                  DerivedFrom(filtered_reasoning.val[m], question_reasoning[f[m]], target)

\* question 2 with low confidence, an entry for B, then question 1 with high
\* confidence: both entries for A are kept, question 2 first
C22_Witness ==
    /\ filtered_reasoning.done
    /\ filtered_reasoning.ok
    /\ target = "A"
    /\ question_reasoning =
           <<ReasoningEntry(IntId(2), <<Alignment("A", "low")>>),
             ReasoningEntry(IntId(1), <<Alignment("B", "high")>>),
             ReasoningEntry(IntId(1), <<Alignment("A", "high")>>)>>
    /\ Len(filtered_reasoning.val) = 2
    /\ filtered_reasoning.val[1].question = IntId(2)
    /\ filtered_reasoning.val[2].question = IntId(1)

\* C23: provided every inference call returns or fails, a started run of the
\* pipeline terminates, and it ends in exactly one of two ways: the list of
\* records is returned and no error is raised, or an error is raised and
\* nothing is returned. Once ended, the outcome stays.
Running == pc \in {"extract", "map", "loop", "eval"}

Succeeded == pc = "done" /\ returned.set /\ error = NoError

Raised == pc = "failed" /\ ~returned.set /\ error # NoError

C23_RunTerminates ==
    /\ [](InRun => (Running \/ Succeeded \/ Raised))
    /\ [](InRun => ~(Succeeded /\ Raised))
    /\ Running ~> (Succeeded \/ Raised)

C23_Witness ==
    /\ Succeeded
    /\ Len(concepts) = 2
    /\ Len(results) = 2
    /\ \E i \in 1..Len(trace) : trace[i].ev = "call" /\ trace[i].stage = "eval"

\* the extraction call of this run answered with the empty list
EmptyExtracted ==
    /\ InRun
    /\ concepts = <<>>
    /\ LET calls == Calls
       IN Len(calls) >= 1 /\ calls[1].stage = "extract" /\ calls[1].answer = "array"

\* neither an evaluation call nor a pacing delay has happened
NoEvaluation ==
    \A i \in 1..Len(trace) :
        ~(trace[i].stage = "eval" /\ trace[i].ev \in {"call", "sleep"})

C27_LastFieldsFrame ==
    [][IF calls_made' = calls_made + 1
          /\ last_call'.method = "analyze_question_paper" /\ last_call'.ok
       THEN /\ last_question_reasoning' = last_call'.question_reasoning
            /\ last_mapping_notes' = last_call'.evaluation_notes
       ELSE UNCHANGED <<last_question_reasoning, last_mapping_notes>>]_vars

\* analyze_question_paper has raised after an earlier success of it had stored a
\* reasoning list and a note, and both are still there
C27_Witness ==
    /\ pc = "session"
    /\ calls_made >= 2
    /\ last_call.method = "analyze_question_paper"
    /\ ~last_call.ok
    /\ last_question_reasoning # <<>>
    /\ last_mapping_notes # <<>>

\* the three stored values were made by the handler of one click, from one
\* result list
FromOneRun(state) ==
    /\ state.results.kind = "results"
    /\ state.excel_data.kind = "xlsx"
    /\ state.pdf_data.kind = "pdf"
    /\ state.results.run \in 1..analyze_runs
    /\ state.excel_data.run = state.results.run
    /\ state.pdf_data.run = state.results.run
    /\ state.excel_data.records = state.results.records
    /\ state.pdf_data.records = state.results.records

\* C28: in a session of Analyze clicks, whenever analysis_complete is true the
\* stored results, excel_data and pdf_data are all set and were made by the same
\* click, whose handler passed every step; a handler that fails at validation,
\* document processing, analysis or report generation leaves the four session
\* fields as they were when it began.
C28_SessionFieldsConsistent ==
    /\ session_state.analysis_complete => FromOneRun(session_state)
    /\ (session_state.analysis_complete /\ session_state.results.run = analyze_runs)
          => pc = "app_shown"
    /\ ~session_state.analysis_complete => session_state = initialize_session_state
    /\ pc \in {"app_failed", "app_documents", "app_analyze", "app_excel", "app_pdf",
                "app_store"}
          => session_state = at_click

\* the second click succeeded, the third failed after its analysis had returned:
\* the session still holds the three values of the second
C28_Witness ==
    /\ pc = "app_failed"
    /\ analyze_runs = 3
    /\ run_locals.results.run = 3
    /\ session_state.analysis_complete
    /\ session_state.results.run = 2
    /\ session_state.pdf_data.run = 2

====
